---- MODULE Spec2Model ----
(***************************************************************************)
(* A state-machine model of src/verify_example.py: the remote access       *)
(* adapter (github_api_request), the document loader, the three validators *)
(* (verify_commit_data, verify_parameter_changes, verify_issues with       *)
(* get_relevant_issues) and the driver main.                               *)
(*                                                                         *)
(* Python values are tagged records: None, I(n), S(s), D(f), L(q).  A dict *)
(* is a function whose DOMAIN is its key set.  Text is a TLA+ string; the  *)
(* CJK keyword and fixture texts of the source are transliterated to       *)
(* ASCII (xiancun, buzu, yudao, wenti).                                    *)
(***************************************************************************)
EXTENDS Integers, Sequences, FiniteSets, TLC

VARIABLES pc, env, sample, cfg, mock, results, all_passed, exit_code,
          ret, idx, page, issues, log

vars == <<pc, env, sample, cfg, mock, results, all_passed, exit_code,
          ret, idx, page, issues, log>>

-----------------------------------------------------------------------------
(* Python values *)

None == [t |-> "none"]
I(n) == [t |-> "int", i |-> n]
S(s) == [t |-> "str", s |-> s]
D(f) == [t |-> "dict", d |-> f]
L(q) == [t |-> "list", l |-> q]

EmptyDict == D(<<>>)

\* bool(v): the truth value Python gives a value in `if not v`
Truthy(v) ==
    CASE v.t = "none" -> FALSE
      [] v.t = "int"  -> v.i # 0
      [] v.t = "str"  -> v.s # ""
      [] v.t = "dict" -> DOMAIN v.d # {}
      [] v.t = "list" -> Len(v.l) > 0
      [] OTHER        -> TRUE

\* dict.get(key, default) on a value known to be a dict
GetD(v, key, default) == IF key \in DOMAIN v.d THEN v.d[key] ELSE default

\* dict.get(key)
Get(v, key) == GetD(v, key, None)

-----------------------------------------------------------------------------
(* Text *)

Upper == <<"A","B","C","D","E","F","G","H","I","J","K","L","M",
           "N","O","P","Q","R","S","T","U","V","W","X","Y","Z">>
Lowers == <<"a","b","c","d","e","f","g","h","i","j","k","l","m",
            "n","o","p","q","r","s","t","u","v","w","x","y","z">>
Digits == <<"0","1","2","3","4","5","6","7","8","9">>

Char(s, i) == SubSeq(s, i, i)

\* str.lower() on one character
LowerChar(c) ==
    IF \E k \in 1..Len(Upper) : Upper[k] = c
    THEN Lowers[CHOOSE k \in 1..Len(Upper) : Upper[k] = c]
    ELSE c

RECURSIVE Lower(_)
\* str.lower()
Lower(s) == IF Len(s) = 0 THEN ""
            ELSE LowerChar(Char(s, 1)) \o Lower(SubSeq(s, 2, Len(s)))

\* `k in t` for two strings
Contains(t, k) ==
    \E i \in 1..(Len(t) - Len(k) + 1) : SubSeq(t, i, i + Len(k) - 1) = k

\* str.startswith
StartsWith(s, p) == Len(s) >= Len(p) /\ SubSeq(s, 1, Len(p)) = p

IsDigit(c) == \E k \in 1..Len(Digits) : Digits[k] = c

DigitVal(c) == (CHOOSE k \in 1..Len(Digits) : Digits[k] = c) - 1

RECURSIVE IntToStr(_)
\* str(n) of an f-string, n >= 0
IntToStr(n) == IF n < 10 THEN Digits[n + 1]
               ELSE IntToStr(n \div 10) \o Digits[(n % 10) + 1]

RECURSIVE StrToInt(_)
\* int(s) for a string of decimal digits
StrToInt(s) == IF Len(s) = 0 THEN 0
               ELSE 10 * StrToInt(SubSeq(s, 1, Len(s) - 1)) + DigitVal(Char(s, Len(s)))

RECURSIVE LastSegment(_)
\* endpoint.split("/")[-1]
LastSegment(s) ==
    IF Len(s) = 0 THEN ""
    ELSE IF Char(s, Len(s)) = "/" THEN ""
    ELSE LastSegment(SubSeq(s, 1, Len(s) - 1)) \o Char(s, Len(s))

RECURSIVE AfterLast(_, _)
\* the text after the last occurrence of marker m in s (the page number of a
\* listing query as the remote reads it)
AfterLast(s, m) ==
    IF Len(s) < Len(m) THEN ""
    ELSE IF SubSeq(s, Len(s) - Len(m) + 1, Len(s)) = m THEN ""
    ELSE AfterLast(SubSeq(s, 1, Len(s) - 1), m) \o Char(s, Len(s))

-----------------------------------------------------------------------------
(* Regular expressions of the source *)

ShaLen == 40

IsHexLower(c) == c \in {"0","1","2","3","4","5","6","7","8","9",
                        "a","b","c","d","e","f"}

\* [a-f0-9] under re.IGNORECASE
IsHex(c) == IsHexLower(LowerChar(c))

\* re.match(r"^[a-f0-9]{40}$", s, re.IGNORECASE): `$` also matches just
\* before a final newline
ShaMatch(s) ==
    /\ \/ Len(s) = ShaLen
       \/ Len(s) = ShaLen + 1 /\ Char(s, ShaLen + 1) = "\n"
    /\ \A i \in 1..ShaLen : IsHex(Char(s, i))

DateLen == 10

\* re.match(r"^\d{4}-\d{2}-\d{2}$", s)
DateMatch(s) ==
    /\ \/ Len(s) = DateLen
       \/ Len(s) = DateLen + 1 /\ Char(s, DateLen + 1) = "\n"
    /\ \A i \in {1, 2, 3, 4, 6, 7, 9, 10} : IsDigit(Char(s, i))
    /\ Char(s, 5) = "-"
    /\ Char(s, 8) = "-"

-----------------------------------------------------------------------------
(* CONFIG and SAMPLE_ANALYSIS *)

ParamUpdate == "micro_batch_size_per_device_for_update"
ParamExperience == "micro_batch_size_per_device_for_experience"

ANALYSIS_FILE_NAME == "analysis_results.json"
ANALYSIS_FILE_FORMAT == "json"

KEYWORDS == <<"oom", "memory", "xiancun">>

EXPECTED_VALUES ==
    (ParamUpdate :> [before |-> I(4), after |-> I(2)]) @@
    (ParamExperience :> [before |-> I(8), after |-> I(4)])

\* json.loads(CONFIG["PARAMETER_VALIDATION"]["RANGE_CONFIG"])
RANGE_CONFIG == (ParamUpdate :> [min_before |-> 1, max_before |-> 16])

\* the values of CONFIG that the runs vary; the rest are the definitions above
CONFIG ==
    [ REQUIRED_PARAMETERS |-> <<ParamUpdate, ParamExperience>>,
      VALIDATION_MODE     |-> "exact",
      INCLUDE_PR          |-> "false",
      ALLOW_EMPTY_ISSUES  |-> "false",
      STRICT_ISSUE_MATCH  |-> "true",
      VERIFY_COMMIT       |-> "true",
      VERIFY_PARAMETERS   |-> "true",
      VERIFY_ISSUES       |-> "true" ]

FlagOnExact(flag) == flag = "true"

\* CONFIG[...].lower() == "true"
FlagOn(flag) == Lower(flag) = "true"

SampleSha == "0f4b0c1e2a3b4c5d6e7f8a9b0c1d2e3f4a5b6c7d"

Change(b, a, n) == D(("before" :> b) @@ ("after" :> a) @@ ("line_number" :> n))

SAMPLE_ANALYSIS ==
    D(("target_commit_sha" :> S(SampleSha)) @@
      ("commit_author" :> S("example-author")) @@
      ("commit_date" :> S("2025-09-10")) @@
      ("parameter_changes" :>
          D((ParamUpdate :> Change(I(4), I(2), I(120))) @@
            (ParamExperience :> Change(I(8), I(4), I(130))))) @@
      ("related_issue_number_list" :> L(<<I(101), I(102)>>)))

\* a document with one field replaced
With(doc, key, v) == D((key :> v) @@ doc.d)

\* a document with one field removed
Without(doc, key) == D([k \in DOMAIN doc.d \ {key} |-> doc.d[k]])

-----------------------------------------------------------------------------
(* The remote service behind the adapter in online mode *)

PageSize == 100

Issue(n, title, body) ==
    D(("number" :> I(n)) @@ ("title" :> S(title)) @@ ("body" :> body))

PullRequest(n, title, body) ==
    D(("number" :> I(n)) @@ ("title" :> S(title)) @@ ("body" :> body) @@
      ("pull_request" :> D("url" :> S("pulls"))))

MockIssue101 == Issue(101, "oom on large batch", S("yudao OOM wenti"))
MockIssue102 == Issue(102, "xiancun buzu", S("memory usage spike"))

\* an issue of the remote listing that mentions no keyword
Filler == Issue(900, "typo in readme", None)

\* the remote's issue listing, oldest page first: head items, then `fill`
\* copies of Filler, then tail items
Listing(l) == l.head \o [k \in 1..l.fill |-> Filler] \o l.tail

Min(a, b) == IF a < b THEN a ELSE b

\* page p (1-based) of a listing served PageSize items at a time
PageOf(q, p) == SubSeq(q, (p - 1) * PageSize + 1, Min(p * PageSize, Len(q)))

Http(status, body) == [status |-> status, body |-> body]

\* the issue of the listing with number n, as GET issues/<n> answers
IssueLookup(q, n) ==
    IF \E k \in 1..Len(q) : q[k].d["number"] = I(n)
    THEN Http(200, q[CHOOSE k \in 1..Len(q) : q[k].d["number"] = I(n)])
    ELSE Http(404, None)

\* requests.get(url): the remote's answer to one endpoint.  A status of 0
\* stands for an exception raised by requests.get (timeout, connection reset).
HttpGet(endpoint, e) ==
    IF StartsWith(endpoint, "contents/") THEN e.contents
    ELSE IF StartsWith(endpoint, "commits/") THEN e.commit
    ELSE IF StartsWith(endpoint, "issues?") THEN
         LET p == StrToInt(AfterLast(endpoint, "page="))
         IN  IF p = e.failPage THEN Http(e.failStatus, None)
             ELSE IF p = e.oddPage THEN Http(200, e.oddBody)
             ELSE Http(200, L(PageOf(Listing(e.listing), p)))
    ELSE IF StartsWith(endpoint, "issues/") THEN
         LET n == StrToInt(LastSegment(endpoint))
         IN  IF n = e.failIssue THEN Http(e.failStatus, None)
             ELSE IssueLookup(Listing(e.listing), n)
    ELSE Http(404, None)

-----------------------------------------------------------------------------
(* github_api_request *)

Result(success, data) == [success |-> success, data |-> data]

JsonDumps(v) == [t |-> "json", of |-> v]
Base64Encode(text) == [t |-> "b64", of |-> text]

\* base64.b64decode(...).decode("utf-8"): any text that is no base64 decodes
\* to bytes that are no JSON
Base64Decode(v) == IF v.t = "b64" THEN v.of ELSE [t |-> "garbage"]

\* the mock branch: fixtures chosen by the leading segment of the endpoint
MockRequest(endpoint, smp) ==
    IF StartsWith(endpoint, "contents/")
    THEN Result(TRUE, D("content" :> Base64Encode(JsonDumps(smp))))
    ELSE IF StartsWith(endpoint, "commits/")
    THEN Result(TRUE,
           D(("sha" :> smp.d["target_commit_sha"]) @@
             ("author" :> D("login" :> smp.d["commit_author"])) @@
             ("commit" :> D("author" :> D("date" :> smp.d["commit_date"])))))
    ELSE IF StartsWith(endpoint, "issues?")
    THEN Result(TRUE, L(<<MockIssue101, MockIssue102>>))
    ELSE IF StartsWith(endpoint, "issues/")
    THEN LET num == StrToInt(LastSegment(endpoint))
         IN  IF num = 101 THEN Result(TRUE, MockIssue101)
             ELSE IF num = 102 THEN Result(TRUE, MockIssue102)
             ELSE Result(FALSE, None)
    ELSE Result(FALSE, None)

\* the online branch: 200 -> (True, json); 404, any other status and any
\* exception -> (False, None)
OnlineRequest(endpoint, e) ==
    IF ~e.requests THEN Result(FALSE, None)
    ELSE LET resp == HttpGet(endpoint, e)
         IN  IF resp.status = 200 THEN Result(TRUE, resp.body)
             ELSE Result(FALSE, None)

github_api_request(endpoint, mk, e, smp) ==
    IF mk THEN MockRequest(endpoint, smp) ELSE OnlineRequest(endpoint, e)

-----------------------------------------------------------------------------
(* load_analysis_results *)

load_analysis_results(mk, e, smp) ==
    LET r == github_api_request("contents/" \o ANALYSIS_FILE_NAME, mk, e, smp)
    IN  IF ~r.success \/ ~Truthy(r.data) THEN None
        ELSE IF r.data.t # "dict" THEN None
        ELSE LET content == Base64Decode(GetD(r.data, "content", S("")))
             IN  IF ANALYSIS_FILE_FORMAT # "json" THEN None
                 ELSE IF content.t = "json" THEN content.of
                 ELSE None

-----------------------------------------------------------------------------
(* verify_commit_data *)

CommitEndpoint(doc) == "commits/" \o Get(doc, "target_commit_sha").s

\* lines 174-177: the SHA format check
ShaCheck(doc) ==
    LET commit_sha == Get(doc, "target_commit_sha")
    IN  commit_sha.t = "str" /\ ShaMatch(commit_sha.s)

\* lines 185-188: "ok" with the actual author, or "raise" where .get is
\* called on a value that is no dict (AttributeError)
ActualAuthor(commit_data) ==
    LET a == GetD(commit_data, "author", EmptyDict)
    IN  IF a.t # "dict" THEN [out |-> "raise"]
        ELSE IF Truthy(Get(a, "login")) THEN [out |-> "ok", v |-> Get(a, "login")]
        ELSE LET c == GetD(commit_data, "commit", EmptyDict)
             IN  IF c.t # "dict" THEN [out |-> "raise"]
                 ELSE LET ca == GetD(c, "author", EmptyDict)
                      IN  IF ca.t # "dict" THEN [out |-> "raise"]
                          ELSE [out |-> "ok", v |-> Get(ca, "name")]

\* "true" / "false": the value returned; "raise": an exception leaves the function
verify_commit_data(doc, mk, e, smp) ==
    IF doc.t # "dict" THEN "raise"
    ELSE IF ~ShaCheck(doc) THEN "false"
    ELSE LET r == github_api_request(CommitEndpoint(doc), mk, e, smp)
         IN  IF ~r.success \/ ~Truthy(r.data) THEN "false"
             ELSE IF r.data.t # "dict" THEN "raise"
             ELSE LET actual == ActualAuthor(r.data)
                      commit_date == GetD(doc, "commit_date", S(""))
                  IN  IF actual.out = "raise" THEN "raise"
                      ELSE IF Get(doc, "commit_author") # actual.v THEN "false"
                      ELSE IF commit_date.t # "str" THEN "raise"
                      ELSE IF ~DateMatch(commit_date.s) THEN "false"
                      ELSE "true"

-----------------------------------------------------------------------------
(* verify_parameter_changes *)

Range(q) == {q[k] : k \in 1..Len(q)}

\* the outcome of a loop whose iterations have the outcomes st[1], st[2], ...:
\* the first that is not "ok" ends the function
FirstNotOk(st) ==
    IF \E k \in 1..Len(st) : st[k] # "ok"
    THEN st[CHOOSE k \in 1..Len(st) :
                st[k] # "ok" /\ \A j \in 1..(k - 1) : st[j] = "ok"]
    ELSE "ok"

Fields == <<"before", "after", "line_number">>

\* `x in container` for a string x: "raise" where Python raises TypeError
InValue(x, v) ==
    CASE v.t = "dict" -> IF x \in DOMAIN v.d THEN "yes" ELSE "no"
      [] v.t = "list" -> IF S(x) \in Range(v.l) THEN "yes" ELSE "no"
      [] v.t = "str"  -> IF Contains(v.s, x) THEN "yes" ELSE "no"
      [] OTHER        -> "raise"

\* lines 210-213 for one entry of parameter_changes
EntryCheck(change) ==
    FirstNotOk([k \in 1..Len(Fields) |->
        CASE InValue(Fields[k], change) = "yes" -> "ok"
          [] InValue(Fields[k], change) = "no"  -> "false"
          [] OTHER                              -> "raise"])

\* lines 206-213 for one required parameter
RequiredCheck(param_changes, param) ==
    CASE InValue(param, param_changes) = "no"    -> "false"
      [] InValue(param, param_changes) = "raise" -> "raise"
      [] param_changes.t # "dict"                -> "raise"
      [] OTHER                                   -> EntryCheck(param_changes.d[param])

\* lines 205-213: the completeness pass
Completeness(param_changes, required) ==
    FirstNotOk([k \in 1..Len(required) |-> RequiredCheck(param_changes, required[k])])

\* param_changes.get(param, {}) followed by actual.get(field)
ActualField(param_changes, param, field) ==
    IF param_changes.t # "dict" THEN [out |-> "raise"]
    ELSE LET actual == GetD(param_changes, param, EmptyDict)
         IN  IF actual.t # "dict" THEN [out |-> "raise"]
             ELSE [out |-> "ok", v |-> Get(actual, field)]

ExpectedOrder == <<ParamUpdate, ParamExperience>>
RangeOrder == <<ParamUpdate>>

ExactCheckSwapped(param_changes, param) ==
    LET b == ActualField(param_changes, param, "before")
        a == ActualField(param_changes, param, "after")
    IN  IF b.out = "raise" THEN "raise"
        ELSE IF b.v # EXPECTED_VALUES[param].after
                \/ a.v # EXPECTED_VALUES[param].before THEN "false"
        ELSE "ok"

\* lines 217-221 for one parameter of EXPECTED_VALUES
ExactCheck(param_changes, param) ==
    LET b == ActualField(param_changes, param, "before")
        a == ActualField(param_changes, param, "after")
    IN  IF b.out = "raise" THEN "raise"
        ELSE IF b.v # EXPECTED_VALUES[param].before
                \/ a.v # EXPECTED_VALUES[param].after THEN "false"
        ELSE "ok"

\* lines 223-227 for one required parameter
AnyCheck(param_changes, param) ==
    LET b == ActualField(param_changes, param, "before")
        a == ActualField(param_changes, param, "after")
    IN  IF b.out = "raise" THEN "raise"
        ELSE IF b.v = a.v THEN "false"
        ELSE "ok"

InRangeExclusive(lo, x, hi) == lo < x /\ x < hi

\* ranges["min_before"] <= before_val <= ranges["max_before"]
InRange(lo, x, hi) == lo <= x /\ x <= hi

\* lines 230-235 for one parameter of RANGE_CONFIG
RangeCheck(param_changes, param) ==
    LET b == ActualField(param_changes, param, "before")
    IN  IF b.out = "raise" THEN "raise"
        ELSE IF b.v = None THEN "false"
        ELSE IF b.v.t # "int" THEN "raise"
        ELSE IF ~InRange(RANGE_CONFIG[param].min_before, b.v.i,
                         RANGE_CONFIG[param].max_before) THEN "false"
        ELSE "ok"

\* lines 215-238: the pass the validation mode selects
ModePass(param_changes, c) ==
    CASE c.VALIDATION_MODE = "exact" ->
           FirstNotOk([k \in 1..Len(ExpectedOrder) |->
                          ExactCheck(param_changes, ExpectedOrder[k])])
      [] c.VALIDATION_MODE = "any" ->
           FirstNotOk([k \in 1..Len(c.REQUIRED_PARAMETERS) |->
                          AnyCheck(param_changes, c.REQUIRED_PARAMETERS[k])])
      [] c.VALIDATION_MODE = "range" ->
           FirstNotOk([k \in 1..Len(RangeOrder) |->
                          RangeCheck(param_changes, RangeOrder[k])])
      [] OTHER -> "false"

verify_parameter_changes(doc, c) ==
    IF doc.t # "dict" THEN "raise"
    ELSE LET param_changes == GetD(doc, "parameter_changes", EmptyDict)
             first == Completeness(param_changes, c.REQUIRED_PARAMETERS)
         IN  IF first # "ok" THEN first
             ELSE IF ModePass(param_changes, c) = "ok" THEN "true"
             ELSE ModePass(param_changes, c)

-----------------------------------------------------------------------------
(* get_relevant_issues and verify_issues *)

\* any(kw.lower() in text for kw in keywords)
HasKeyword(text) ==
    \E k \in 1..Len(KEYWORDS) : Contains(text, Lower(KEYWORDS[k]))

\* (item.get("title", "") + " " + (item.get("body") or "")).lower()
IssueText(item) ==
    IF item.t # "dict" THEN [out |-> "raise"]
    ELSE LET title == GetD(item, "title", S(""))
             body  == IF Truthy(Get(item, "body")) THEN Get(item, "body") ELSE S("")
         IN  IF title.t # "str" \/ body.t # "str" THEN [out |-> "raise"]
             ELSE [out |-> "ok", text |-> Lower(title.s \o " " \o body.s)]

\* lines 253-260 for one element of a page: "skip" (a pull request left out),
\* "add" (its number joins the set), "pass" (no keyword) or "raise"
ItemStep(item, include_pr) ==
    IF ~include_pr /\ InValue("pull_request", item) = "raise" THEN "raise"
    ELSE IF ~include_pr /\ InValue("pull_request", item) = "yes" THEN "skip"
    ELSE IF IssueText(item).out = "raise" THEN "raise"
    ELSE IF HasKeyword(IssueText(item).text) THEN "add"
    ELSE "pass"

\* what `for item in data` iterates over: "raise" where data is not iterable
Elements(data) ==
    CASE data.t = "list" -> [out |-> "ok", q |-> data.l]
      [] data.t = "dict" ->
           \* the keys; their order does not change the outcome of the loop
           LET keys == DOMAIN data.d
               RECURSIVE AsSeq(_)
               AsSeq(ks) == IF ks = {} THEN <<>>
                            ELSE LET k == CHOOSE x \in ks : TRUE
                                 IN  <<S(k)>> \o AsSeq(ks \ {k})
           IN  [out |-> "ok", q |-> AsSeq(keys)]
      [] data.t = "str" -> [out |-> "ok", q |-> [k \in 1..Len(data.s) |-> S(Char(data.s, k))]]
      [] OTHER -> [out |-> "raise"]

ListingEndpoint(p) ==
    "issues?state=all&per_page=" \o IntToStr(PageSize) \o "&page=" \o IntToStr(p)

BreakOnFullPage(data) == data.t = "list" /\ Len(data.l) <= PageSize

\* line 261: isinstance(data, list) and len(data) < 100
ShortPage(data) == data.t = "list" /\ Len(data.l) < PageSize

\* one iteration of the loop of get_relevant_issues (lines 248-263) at page p
\* with the set acc collected so far
PageStep(p, acc, c, mk, e, smp) ==
    LET r == github_api_request(ListingEndpoint(p), mk, e, smp)
        include_pr == FlagOn(c.INCLUDE_PR)
    IN  IF ~r.success \/ ~Truthy(r.data) THEN [next |-> "break", issues |-> acc]
        ELSE IF Elements(r.data).out = "raise" THEN [next |-> "raise", issues |-> acc]
        ELSE LET items == Range(Elements(r.data).q)
                 found == acc \cup {Get(x, "number") :
                              x \in {y \in items : ItemStep(y, include_pr) = "add"}}
             IN  IF \E x \in items : ItemStep(x, include_pr) = "raise"
                 THEN [next |-> "raise", issues |-> acc]
                 ELSE IF ShortPage(r.data) THEN [next |-> "break", issues |-> found]
                 ELSE [next |-> "continue", issues |-> found]

RECURSIVE get_relevant_issues(_, _, _, _, _, _)
\* lines 242-264: the whole loop from page p on; "ok" with the set returned,
\* or "raise"
get_relevant_issues(p, acc, c, mk, e, smp) ==
    LET step == PageStep(p, acc, c, mk, e, smp)
    IN  IF step.next = "raise" THEN [out |-> "raise"]
        ELSE IF step.next = "break" THEN [out |-> "ok", issues |-> step.issues]
        ELSE get_relevant_issues(p + 1, step.issues, c, mk, e, smp)

\* line 267: results.get("related_issue_number_list", [])
IssueList(doc) == GetD(doc, "related_issue_number_list", L(<<>>))

\* lines 267-273: "ok" when the per-issue loop is to run
IssueListCheck(doc, c) ==
    IF doc.t # "dict" THEN "raise"
    ELSE IF IssueList(doc).t # "list" THEN "false"
    ELSE IF Len(IssueList(doc).l) = 0 /\ ~FlagOn(c.ALLOW_EMPTY_ISSUES) THEN "false"
    ELSE "ok"

\* lines 277-287 for one element of related_issue_number_list
IssueCheck(issue_num, mk, e, smp) ==
    IF issue_num.t # "int" THEN "false"
    ELSE IF issue_num.i <= 0 THEN "false"
    ELSE LET r == github_api_request("issues/" \o IntToStr(issue_num.i), mk, e, smp)
         IN  IF ~r.success \/ ~Truthy(r.data) THEN "false"
             ELSE IF IssueText(r.data).out = "raise" THEN "raise"
             ELSE IF ~HasKeyword(IssueText(r.data).text) THEN "false"
             ELSE "ok"

ReconciliationAlwaysStrict(issue_list, expected_issues, c) ==
    IF Range(issue_list.l) # expected_issues THEN "false" ELSE "true"

\* lines 290-301: the value verify_issues returns once expected_issues is known
Reconciliation(issue_list, expected_issues, c) ==
    LET provided_issues == Range(issue_list.l)
    IN  IF provided_issues # expected_issues /\ FlagOn(c.STRICT_ISSUE_MATCH)
        THEN "false"
        ELSE "true"

-----------------------------------------------------------------------------
(* main: one action per stage of the run *)

NotRun == [commit |-> "notrun", parameters |-> "notrun", issues |-> "notrun"]

NoLog == [loaded |-> FALSE, failed |-> {}, pages |-> <<>>, reconciled |-> FALSE]

\* the state of the process once `r` has come back from validator `name`:
\* an exception is not caught by main and ends the process with status 1
Returned(name, r, nextpc) ==
    /\ ret' = [ret EXCEPT ![name] = r]
    /\ IF r = "raise"
       THEN /\ pc' = "exit"
            /\ exit_code' = 1
            /\ UNCHANGED all_passed
       ELSE /\ pc' = nextpc
            /\ all_passed' = (all_passed /\ r = "true")
            /\ UNCHANGED exit_code

Failed(name, failed) ==
    log' = [log EXCEPT !.failed = IF failed THEN @ \cup {name} ELSE @]

\* lines 306-329: mode selection, the capability check and the load
MainLoad ==
    /\ pc = "start"
    /\ LET mk  == env.args_mock \/ ~env.token
           doc == load_analysis_results(mk, env, sample)
       IN  /\ mock' = mk
           /\ IF ~mk /\ ~env.requests
              THEN /\ pc' = "exit"
                   /\ exit_code' = 1
                   /\ UNCHANGED <<results, log>>
              ELSE /\ results' = doc
                   /\ IF ~Truthy(doc)
                      THEN /\ pc' = "exit"
                           /\ exit_code' = 1
                           /\ UNCHANGED log
                      ELSE /\ pc' = "commit"
                           /\ log' = [log EXCEPT !.loaded = TRUE]
                           /\ UNCHANGED exit_code
    /\ UNCHANGED <<env, sample, cfg, all_passed, ret, idx, page, issues>>

\* lines 331-336
MainCommit ==
    /\ pc = "commit"
    /\ IF FlagOn(cfg.VERIFY_COMMIT)
       THEN /\ Returned("commit", verify_commit_data(results, mock, env, sample), "params")
            /\ Failed("commit",
                      /\ results.t = "dict"
                      /\ ShaCheck(results)
                      /\ ~github_api_request(CommitEndpoint(results), mock, env, sample).success)
       ELSE /\ pc' = "params"
            /\ UNCHANGED <<ret, all_passed, exit_code, log>>
    /\ UNCHANGED <<env, sample, cfg, mock, results, idx, page, issues>>

\* lines 338-343
MainParameters ==
    /\ pc = "params"
    /\ IF FlagOn(cfg.VERIFY_PARAMETERS)
       THEN Returned("parameters", verify_parameter_changes(results, cfg), "issues")
       ELSE /\ pc' = "issues"
            /\ UNCHANGED <<ret, all_passed, exit_code>>
    /\ UNCHANGED <<env, sample, cfg, mock, results, idx, page, issues, log>>

\* lines 345-347 and 267-273: the call of verify_issues up to its loop
MainIssues ==
    /\ pc = "issues"
    /\ IF FlagOn(cfg.VERIFY_ISSUES)
       THEN IF IssueListCheck(results, cfg) = "ok"
            THEN /\ pc' = "issue_loop"
                 /\ idx' = 1
                 /\ UNCHANGED <<ret, all_passed, exit_code>>
            ELSE /\ Returned("issues", IssueListCheck(results, cfg), "finish")
                 /\ UNCHANGED idx
       ELSE /\ pc' = "finish"
            /\ UNCHANGED <<ret, all_passed, exit_code, idx>>
    /\ UNCHANGED <<env, sample, cfg, mock, results, page, issues, log>>

\* lines 276-287: one iteration of the per-issue loop, or the call of
\* get_relevant_issues once the list is exhausted
IssueLoop ==
    /\ pc = "issue_loop"
    /\ LET issue_list == IssueList(results).l
       IN  IF idx > Len(issue_list)
           THEN /\ pc' = "paging"
                /\ page' = 1
                /\ issues' = {}
                /\ UNCHANGED <<ret, all_passed, exit_code, idx, log>>
           ELSE /\ IF IssueCheck(issue_list[idx], mock, env, sample) = "ok"
                   THEN /\ idx' = idx + 1
                        /\ UNCHANGED <<pc, ret, all_passed, exit_code>>
                   ELSE /\ Returned("issues",
                                    IssueCheck(issue_list[idx], mock, env, sample), "finish")
                        /\ UNCHANGED idx
                /\ Failed("issues",
                          /\ issue_list[idx].t = "int"
                          /\ issue_list[idx].i > 0
                          /\ ~github_api_request("issues/" \o IntToStr(issue_list[idx].i),
                                                 mock, env, sample).success)
                /\ UNCHANGED <<page, issues>>
    /\ UNCHANGED <<env, sample, cfg, mock, results>>

\* what a fetched page is, as the paging loop is documented to see it
PageKind(r) ==
    IF ~r.success \/ ~Truthy(r.data) THEN "absent"
    ELSE IF r.data.t # "list" THEN "nonlist"
    ELSE IF Len(r.data.l) < PageSize THEN "short"
    ELSE "full"

\* lines 247-264: one iteration of the paging loop of get_relevant_issues
FetchPage ==
    /\ pc = "paging"
    /\ LET step == PageStep(page, issues, cfg, mock, env, sample)
           r    == github_api_request(ListingEndpoint(page), mock, env, sample)
       IN  /\ issues' = step.issues
           /\ log' = [log EXCEPT !.pages = Append(@, [page |-> page, kind |-> PageKind(r)]),
                                 !.failed = IF r.success THEN @ ELSE @ \cup {"issues"}]
           /\ IF step.next = "raise"
              THEN /\ Returned("issues", "raise", "finish")
                   /\ UNCHANGED page
              ELSE /\ pc' = IF step.next = "break" THEN "reconcile" ELSE "paging"
                   /\ page' = IF step.next = "break" THEN page ELSE page + 1
                   /\ UNCHANGED <<ret, all_passed, exit_code>>
    /\ UNCHANGED <<env, sample, cfg, mock, results, idx>>

\* lines 289-301 and 347-350: the set comparison and the return of verify_issues
Reconcile ==
    /\ pc = "reconcile"
    /\ Returned("issues",
                Reconciliation(IssueList(results), issues, cfg),
                "finish")
    /\ log' = [log EXCEPT !.reconciled = TRUE]
    /\ UNCHANGED <<env, sample, cfg, mock, results, idx, page, issues>>

\* lines 352-358
MainFinish ==
    /\ pc = "finish"
    /\ pc' = "exit"
    /\ exit_code' = IF all_passed THEN 0 ELSE 1
    /\ UNCHANGED <<env, sample, cfg, mock, results, all_passed, ret, idx, page,
                   issues, log>>

Next ==
    \/ MainLoad
    \/ MainCommit
    \/ MainParameters
    \/ MainIssues
    \/ IssueLoop
    \/ FetchPage
    \/ Reconcile
    \/ MainFinish

-----------------------------------------------------------------------------
(* The runs *)

\* a field left out of a dict under construction
Absent == [t |-> "absent"]

\* the dict with the fields of f that are not Absent
Record(f) == D([k \in {x \in DOMAIN f : f[x] # Absent} |-> f[k]])

\* a commit as the remote describes it
Commit(author, commit) ==
    Record(("sha" :> S(SampleSha)) @@ ("author" :> author) @@ ("commit" :> commit))

SampleCommit ==
    Commit(D("login" :> S("example-author")),
           D("author" :> D(("name" :> S("Example Author")) @@
                           ("date" :> S("2025-09-10")))))

Contents(doc) == Http(200, D("content" :> Base64Encode(JsonDumps(doc))))

SmallListing == [head |-> <<MockIssue101, MockIssue102>>, fill |-> 0, tail |-> <<>>]

\* a remote that holds the sample document, its commit and its two issues,
\* reached with a token and with requests installed
SampleEnv ==
    [ args_mock  |-> FALSE,
      token      |-> TRUE,
      requests   |-> TRUE,
      contents   |-> Contents(SAMPLE_ANALYSIS),
      commit     |-> Http(200, SampleCommit),
      listing    |-> SmallListing,
      failPage   |-> 0,
      failIssue  |-> 0,
      failStatus |-> 500,
      oddPage    |-> 0,
      oddBody    |-> None ]

\* the state after construction, for a remote e, a SAMPLE_ANALYSIS smp and a
\* CONFIG c
Start(e, smp, c) ==
    /\ pc = "start"
    /\ env = e
    /\ sample = smp
    /\ cfg = c
    /\ mock = FALSE
    /\ results = None
    /\ all_passed = TRUE
    /\ exit_code = -1
    /\ ret = NotRun
    /\ idx = 0
    /\ page = 0
    /\ issues = {}
    /\ log = NoLog

-----------------------------------------------------------------------------
(* Runs of the commit validator *)

UpperSha == "0F4B0C1E2A3B4C5D6E7F8A9B0C1D2E3F4A5B6C7D"

ShaValues ==
    { Absent, I(5), S(SampleSha), S(UpperSha),
      S(SubSeq(SampleSha, 1, ShaLen - 1)),
      S(SampleSha \o "0"),
      S(SubSeq(SampleSha, 1, ShaLen - 1) \o "g"),
      S(SampleSha \o "\n") }

AuthorValues == { Absent, S("example-author"), S("Example Author"), S("mallory") }

DateValues ==
    { Absent, None, I(20250910), S("2025-09-10"), S("2025-9-10"), S("2025/09/10"),
      S("2025-09-10\n"), S("10-09-2025"), S("2025-09-10T08:00:00Z") }

CommitAuthors ==
    { Absent, None, D("login" :> None), D("login" :> S("example-author")),
      D("login" :> S("mallory")) }

CommitDetails ==
    { Absent, None, EmptyDict, D("author" :> None),
      D("author" :> D("name" :> S("Example Author"))),
      D("author" :> D("name" :> S("example-author"))) }

HttpFailures == { Http(404, None), Http(500, None), Http(0, None) }

CommitResponses ==
    HttpFailures \cup { Http(200, Commit(a, c)) : a \in CommitAuthors, c \in CommitDetails }

CommitDocs ==
    { Record(("target_commit_sha" :> sha) @@ ("commit_author" :> a) @@
             ("commit_date" :> dt) @@ SAMPLE_ANALYSIS.d) :
        sha \in ShaValues, a \in AuthorValues, dt \in DateValues }

\* SAMPLE_ANALYSIS as edited for a scenario
AlteredSamples ==
    { SAMPLE_ANALYSIS,
      With(SAMPLE_ANALYSIS, "commit_author", S("mallory")),
      With(SAMPLE_ANALYSIS, "commit_date", S("10-09-2025")),
      With(SAMPLE_ANALYSIS, "target_commit_sha", S(UpperSha)),
      With(SAMPLE_ANALYSIS, "target_commit_sha", S("0f4b0c1")) }

\* CONFIG with one validator enabled
OnlyCommit == [CONFIG EXCEPT !.VERIFY_PARAMETERS = "false", !.VERIFY_ISSUES = "false"]
OnlyParameters == [CONFIG EXCEPT !.VERIFY_COMMIT = "false", !.VERIFY_ISSUES = "false"]
OnlyIssues == [CONFIG EXCEPT !.VERIFY_COMMIT = "false", !.VERIFY_PARAMETERS = "false"]

InitCommit ==
    \/ \E doc \in CommitDocs, r \in CommitResponses :
          Start([SampleEnv EXCEPT !.contents = Contents(doc), !.commit = r],
                SAMPLE_ANALYSIS, OnlyCommit)
    \/ \E smp \in AlteredSamples, tok \in BOOLEAN :
          Start([SampleEnv EXCEPT !.args_mock = ~tok, !.token = tok], smp, CONFIG)

SpecCommit == InitCommit /\ [][Next]_vars

-----------------------------------------------------------------------------
(* Runs of the parameter validator *)

UpdateEntries ==
    { Absent, I(5) } \cup
    { Record(("before" :> b) @@ ("after" :> a) @@ ("line_number" :> n)) :
        b \in { Absent, None, I(0), I(1), I(4), I(16), I(17), S("4") },
        a \in { Absent, I(2), I(4) },
        n \in { Absent, I(120) } }

ExperienceEntries ==
    { Absent, I(5) } \cup
    { Record(("before" :> b) @@ ("after" :> a) @@ ("line_number" :> n)) :
        b \in { Absent, I(8), I(4) },
        a \in { Absent, I(4), I(8) },
        n \in { Absent, I(130) } }

ParameterChanges ==
    { Absent, None } \cup
    { Record((ParamUpdate :> u) @@ (ParamExperience :> x)) :
        u \in UpdateEntries, x \in ExperienceEntries }

Modes == { "exact", "any", "range", "fuzzy" }

RequiredLists == { <<ParamUpdate, ParamExperience>>, <<ParamUpdate>>, <<ParamExperience>> }

InitParameters ==
    \/ \E pch \in ParameterChanges, m \in Modes, req \in RequiredLists :
          Start([SampleEnv EXCEPT
                   !.contents = Contents(Record(("parameter_changes" :> pch) @@ SAMPLE_ANALYSIS.d))],
                SAMPLE_ANALYSIS,
                [OnlyParameters EXCEPT !.VALIDATION_MODE = m, !.REQUIRED_PARAMETERS = req])
    \/ \E m \in Modes, tok \in BOOLEAN :
          Start([SampleEnv EXCEPT !.token = tok], SAMPLE_ANALYSIS,
                [CONFIG EXCEPT !.VALIDATION_MODE = m])

SpecParameters == InitParameters /\ [][Next]_vars

-----------------------------------------------------------------------------
(* Runs of the issue validator *)

MaxFullPages == 2

Issue104 == Issue(104, "ci is flaky", S("timeouts on the runner"))
Issue105 == Issue(105, "Out Of MEMORY on eval", None)
Pull103  == PullRequest(103, "Fix OOM in trainer", S("reduces the batch"))

\* sizes of the run of Filler issues: at and just below each multiple of the page size
FillSizes ==
    { n \in { k * PageSize - d : k \in 0..MaxFullPages, d \in 0..2 } : n >= 0 }

Heads == { <<>>, <<MockIssue101>>, <<MockIssue101, MockIssue102>>,
           <<Pull103, MockIssue101, MockIssue102, Issue104>> }

Tails == { <<>>, <<MockIssue102>>, <<Issue105>> }

Listings == [head : Heads, fill : FillSizes, tail : Tails]

IssueLists ==
    { Absent, None, L(<<>>), L(<<I(101)>>), L(<<I(101), I(102)>>),
      L(<<I(102), I(101), I(101)>>), L(<<I(101), I(102), I(105)>>),
      L(<<I(103), I(101), I(102)>>), L(<<I(101), I(104)>>), L(<<I(101), I(0)>>),
      L(<<S("101")>>), L(<<I(101), I(999)>>) }

IssuePolicies ==
    { [OnlyIssues EXCEPT !.INCLUDE_PR = pr, !.ALLOW_EMPTY_ISSUES = em,
                         !.STRICT_ISSUE_MATCH = st] :
        pr \in {"false", "True"}, em \in {"false", "true"}, st \in {"true", "False"} }

IssueDoc(list) == Record(("related_issue_number_list" :> list) @@ SAMPLE_ANALYSIS.d)

\* pages that are no list: an error object, an object whose only key names a
\* pull request, a number
OddBodies == { D("message" :> S("Server Error")), D("pull_request_url" :> S("pulls")), I(5) }

InitIssues ==
    \/ \E l \in Listings, list \in IssueLists, c \in IssuePolicies :
          Start([SampleEnv EXCEPT !.contents = Contents(IssueDoc(list)), !.listing = l],
                SAMPLE_ANALYSIS, c)
    \/ \E l \in {x \in Listings : x.head = <<MockIssue101, MockIssue102>>
                                   /\ x.tail # <<Issue105>>},
          list \in {L(<<>>), L(<<I(101)>>), L(<<I(101), I(102)>>)},
          c \in IssuePolicies, fp \in 0..(MaxFullPages + 1), fi \in {0, 101},
          st \in {404, 500, 0} :
          /\ fp + fi > 0
          /\ Start([SampleEnv EXCEPT !.contents = Contents(IssueDoc(list)), !.listing = l,
                                     !.failPage = fp, !.failIssue = fi, !.failStatus = st],
                   SAMPLE_ANALYSIS, c)
    \/ \E l \in {x \in Listings : x.head = <<MockIssue101, MockIssue102>> /\ x.tail = <<>>},
          c \in IssuePolicies, op \in 1..2, ob \in OddBodies :
          Start([SampleEnv EXCEPT !.listing = l, !.oddPage = op, !.oddBody = ob],
                SAMPLE_ANALYSIS, c)
    \/ \E list \in IssueLists \ {Absent}, c \in IssuePolicies \cup {CONFIG} :
          Start([SampleEnv EXCEPT !.args_mock = TRUE],
                With(SAMPLE_ANALYSIS, "related_issue_number_list", list), c)

SpecIssues == InitIssues /\ [][Next]_vars

-----------------------------------------------------------------------------
(* Runs of main *)

Flags == { "true", "false", "TRUE" }

\* documents whose validators pass or fail one by one
MainDocs ==
    { SAMPLE_ANALYSIS,
      With(SAMPLE_ANALYSIS, "commit_author", S("mallory")),
      With(SAMPLE_ANALYSIS, "commit_date", I(20250910)),
      Without(SAMPLE_ANALYSIS, "parameter_changes"),
      With(SAMPLE_ANALYSIS, "related_issue_number_list", L(<<I(101)>>)),
      With(Without(SAMPLE_ANALYSIS, "parameter_changes"), "commit_author", S("mallory")),
      EmptyDict,
      L(<<I(1)>>) }

\* answers to the file-contents lookup
ContentsResponses ==
    { Contents(doc) : doc \in MainDocs } \cup HttpFailures \cup
    { Http(200, EmptyDict),
      Http(200, L(<<I(1)>>)),
      Http(200, D("content" :> S("%%%"))),
      Http(200, D("content" :> Base64Encode([t |-> "garbage"]))) }

Init ==
    \E a \in BOOLEAN, tok \in BOOLEAN, req \in BOOLEAN, r \in ContentsResponses,
       smp \in { SAMPLE_ANALYSIS, With(SAMPLE_ANALYSIS, "commit_author", S("mallory")) },
       fc \in Flags, fp \in Flags, fi \in Flags :
       Start([SampleEnv EXCEPT !.args_mock = a, !.token = tok, !.requests = req,
                               !.contents = r],
             smp,
             [CONFIG EXCEPT !.VERIFY_COMMIT = fc, !.VERIFY_PARAMETERS = fp,
                            !.VERIFY_ISSUES = fi])

Spec == Init /\ [][Next]_vars

-----------------------------------------------------------------------------
(* The claims *)

Validators == {"commit", "parameters", "issues"}

FlagOf(v) == CASE v = "commit"     -> cfg.VERIFY_COMMIT
               [] v = "parameters" -> cfg.VERIFY_PARAMETERS
               [] OTHER            -> cfg.VERIFY_ISSUES

\* the text is "true" in any mix of upper and lower case
TrueIgnoringCase(flag) ==
    /\ Len(flag) = 4
    /\ Char(flag, 1) \in {"t", "T"}
    /\ Char(flag, 2) \in {"r", "R"}
    /\ Char(flag, 3) \in {"u", "U"}
    /\ Char(flag, 4) \in {"e", "E"}

\* the exit status of a finished run as the claim C1 gives it, for a reading
\* On(_) of "the validator's enable flag is true": a validator that is not
\* enabled has no part in the condition for status 0
ExitContract(On(_)) ==
    pc = "exit" =>
      /\ exit_code \in {0, 1}
      /\ exit_code = 0 <=> (log.loaded /\ \A v \in Validators : On(FlagOf(v)) => ret[v] = "true")
      /\ ~log.loaded => (exit_code = 1 /\ ret = NotRun)
      /\ (\E v \in Validators : On(FlagOf(v)) /\ ret[v] = "false") => exit_code = 1
      /\ (~mock /\ ~env.requests) => exit_code = 1

IsLiterallyTrue(flag) == flag = "true"

\* C1 as amended: a finished run exits with 0 exactly when a non-empty
\* document was loaded and every validator whose enable flag reads "true" in
\* any letter case returned true; it exits with 1 when the document was not
\* loaded (and then no validator ran), when an enabled validator returned
\* false, and when online mode is in force without requests; a validator
\* whose flag does not read "true" in any letter case is never run.
C1_ExitStatus ==
    /\ ExitContract(TrueIgnoringCase)
    /\ \A v \in Validators : ~TrueIgnoringCase(FlagOf(v)) => ret[v] = "notrun"

\* C1 as stated, with "enabled" read as the flag being exactly the text
\* "true", for the runs in which no validator raises.
C1_ExitStatusLiteralFlag ==
    (\A v \in Validators : ret[v] # "raise") => ExitContract(IsLiterallyTrue)

C1_Witness ==
    /\ pc = "exit"
    /\ exit_code = 1
    /\ log.loaded
    /\ cfg.VERIFY_COMMIT = "TRUE"
    /\ ret.commit = "false"
    /\ cfg.VERIFY_PARAMETERS = "false"
    /\ ret.parameters = "notrun"
    /\ ret.issues = "true"

AllEnabled == \A v \in Validators : TrueIgnoringCase(FlagOf(v))

\* C2: an offline run whose sample document has its commit_author altered to
\* an unrelated string ends with the commit validator returning false and a
\* nonzero exit status, the parameter and issue validators having returned
\* true.
C2_MutatedScenario ==
    ( /\ pc = "exit"
      /\ mock
      /\ AllEnabled
      /\ sample = With(SAMPLE_ANALYSIS, "commit_author", S("mallory")) )
    => /\ ret.commit = "false"
       /\ exit_code = 1
       /\ ret.parameters = "true"
       /\ ret.issues = "true"

\* C3: an offline run on the bundled sample document with all three
\* validators enabled and the default policy ends with the three validators
\* having returned true and exit status 0.
C3_RoundTrip ==
    ( /\ pc = "exit"
      /\ mock
      /\ AllEnabled
      /\ sample = SAMPLE_ANALYSIS
      /\ [cfg EXCEPT !.VERIFY_COMMIT = "true", !.VERIFY_PARAMETERS = "true",
                     !.VERIFY_ISSUES = "true"] = CONFIG )
    => /\ ret = [commit |-> "true", parameters |-> "true", issues |-> "true"]
       /\ all_passed
       /\ exit_code = 0

C3_Witness ==
    /\ pc = "exit"
    /\ mock
    /\ env.args_mock
    /\ sample = SAMPLE_ANALYSIS
    /\ cfg = CONFIG
    /\ results = SAMPLE_ANALYSIS
    /\ exit_code = 0

\* C4: no validator ever ends by raising an exception; each returns true or
\* false.
C4_NoFaultEscapes == \A v \in Validators : ret[v] # "raise"

\* C5: a validator during whose run an adapter fetch returned (false, none)
\* returns false.
C5_FailFast ==
    pc \in {"finish", "exit"} => \A v \in log.failed : ret[v] = "false"

-----------------------------------------------------------------------------
(* The issue validator's claims *)

provided_set == Range(IssueList(results).l)

StrictMatch == TrueIgnoringCase(cfg.STRICT_ISSUE_MATCH)

\* what C6 says verify_issues returns, given the expected set
SetRule(expected) ==
    /\ StrictMatch => (ret.issues = "true" <=> provided_set = expected)
    /\ ~StrictMatch => ret.issues = "true"

\* C6 as amended: once the per-issue content check has passed as a whole (the
\* list is non-empty unless allow-empty-issue-list is enabled, and every
\* listed issue passed) and get_relevant_issues has returned, the document's
\* list is compared as a set with the expected set: under strict-issue-match
\* verify_issues returns true exactly when the sets are equal, and without it
\* verify_issues returns true.
C6_SetReconciliation == log.reconciled => SetRule(issues)

C6_Witness ==
    /\ log.reconciled
    /\ ~StrictMatch
    /\ IssueList(results).l = <<I(102), I(101), I(101)>>
    /\ issues = {I(101), I(102), I(105)}
    /\ ret.issues = "true"

\* every element of the document's list passes lines 277-287
AllListedPassed ==
    /\ results.t = "dict"
    /\ IssueList(results).t = "list"
    /\ \A k \in 1..Len(IssueList(results).l) :
          IssueCheck(IssueList(results).l[k], mock, env, sample) = "ok"

\* C6 as stated: whenever every listed issue passed its per-issue content
\* check (and get_relevant_issues returns a set), verify_issues returns what
\* the set comparison gives.
C6_SetReconciliationAnyList ==
    ( /\ pc = "exit"
      /\ ret.issues # "notrun"
      /\ AllListedPassed
      /\ get_relevant_issues(1, {}, cfg, mock, env, sample).out = "ok" )
    => SetRule(get_relevant_issues(1, {}, cfg, mock, env, sample).issues)

\* C9: the pages are requested in the order 1, 2, 3, ...; a further page is
\* requested only after a full-size list; and the loop ends normally only
\* after a page that is absent, no list, or shorter than the page size.
C9_PagingStops ==
    /\ \A k \in 1..Len(log.pages) : log.pages[k].page = k
    /\ \A k \in 1..(Len(log.pages) - 1) : log.pages[k].kind = "full"
    /\ (pc = "reconcile" => log.pages[Len(log.pages)].kind # "full")

\* the listing the paging loop reads
FullListing == IF mock THEN <<MockIssue101, MockIssue102>> ELSE Listing(env.listing)

\* an issue of the listing that get_relevant_issues is to report
Relevant(item) ==
    /\ TrueIgnoringCase(cfg.INCLUDE_PR) \/ "pull_request" \notin DOMAIN item.d
    /\ LET title == item.d["title"].s
           body  == IF "body" \in DOMAIN item.d /\ item.d["body"].t = "str"
                    THEN item.d["body"].s ELSE ""
       IN  \E k \in 1..Len(KEYWORDS) :
              Contains(Lower(title \o " " \o body), Lower(KEYWORDS[k]))

\* C10: when every page fetch succeeded (and every page was a list), the set
\* get_relevant_issues returns is exactly the set of the numbers of the
\* relevant issues of the whole listing.
C10_ExactSet ==
    ( /\ pc = "reconcile"
      /\ "issues" \notin log.failed
      /\ \A k \in 1..Len(log.pages) : log.pages[k].kind # "nonlist" )
    => issues = { x.d["number"] : x \in { y \in Range(FullListing) : Relevant(y) } }

C10_Witness ==
    /\ pc = "reconcile"
    /\ "issues" \notin log.failed
    /\ Len(Listing(env.listing)) = 2 * PageSize
    /\ Len(log.pages) = 3
    /\ log.pages[2].kind = "full"
    /\ log.pages[3].kind = "absent"
    /\ env.listing.tail = <<Issue105>>
    /\ I(105) \in issues
    /\ I(900) \notin issues

-----------------------------------------------------------------------------
(* The parameter validator's claim *)

doc_param_changes == IF results.t = "dict" THEN GetD(results, "parameter_changes", EmptyDict)
                 ELSE None

\* the entry of a parameter carries the field
Carries(param, field) ==
    /\ doc_param_changes.t = "dict"
    /\ param \in DOMAIN doc_param_changes.d
    /\ doc_param_changes.d[param].t = "dict"
    /\ field \in DOMAIN doc_param_changes.d[param].d

FieldOf(param, field) ==
    IF Carries(param, field) THEN doc_param_changes.d[param].d[field] ELSE None

CompletenessHolds ==
    \A param \in Range(cfg.REQUIRED_PARAMETERS) :
       \A field \in {"before", "after", "line_number"} : Carries(param, field)

ModeHolds ==
    CASE cfg.VALIDATION_MODE = "exact" ->
           \A param \in DOMAIN EXPECTED_VALUES :
              /\ FieldOf(param, "before") = EXPECTED_VALUES[param].before
              /\ FieldOf(param, "after") = EXPECTED_VALUES[param].after
      [] cfg.VALIDATION_MODE = "any" ->
           \A param \in Range(cfg.REQUIRED_PARAMETERS) :
              FieldOf(param, "before") # FieldOf(param, "after")
      [] cfg.VALIDATION_MODE = "range" ->
           \A param \in DOMAIN RANGE_CONFIG :
              /\ FieldOf(param, "before").t = "int"
              /\ RANGE_CONFIG[param].min_before <= FieldOf(param, "before").i
              /\ FieldOf(param, "before").i <= RANGE_CONFIG[param].max_before
      [] OTHER -> FALSE

\* C7: verify_parameter_changes returns true exactly when the completeness
\* pass and the pass of the validation mode both succeed; a document that
\* satisfies completeness but not the mode pass is not accepted.
C7_BothPasses ==
    ret.parameters # "notrun" =>
       /\ ret.parameters = "true" <=> (CompletenessHolds /\ ModeHolds)
       /\ (CompletenessHolds /\ ~ModeHolds) => ret.parameters \in {"false", "raise"}

C7_Witness ==
    /\ ret.parameters = "true"
    /\ cfg.VALIDATION_MODE = "range"
    /\ cfg.REQUIRED_PARAMETERS = <<ParamExperience>>
    /\ FieldOf(ParamUpdate, "before") = I(16)
    /\ ~Carries(ParamUpdate, "after")

-----------------------------------------------------------------------------
(* The commit validator's claim *)

commit_lookup == github_api_request(CommitEndpoint(results), mock, env, sample)

\* target_commit_sha is exactly 40 hexadecimal characters of either case
ExactlyFortyHex ==
    /\ results.t = "dict"
    /\ Get(results, "target_commit_sha").t = "str"
    /\ Len(Get(results, "target_commit_sha").s) = ShaLen
    /\ \A i \in 1..ShaLen :
          Char(Get(results, "target_commit_sha").s, i) \in
             {"0","1","2","3","4","5","6","7","8","9","a","b","c","d","e","f",
              "A","B","C","D","E","F"}

\* the value at a path of keys, None where a step is missing or no dict
RECURSIVE Dig(_, _)
Dig(v, path) ==
    IF Len(path) = 0 THEN v
    ELSE IF v.t = "dict" /\ Head(path) \in DOMAIN v.d THEN Dig(v.d[Head(path)], Tail(path))
    ELSE None

\* the linked account's login when present, otherwise commit.author.name
StatedAuthor(commit_data) ==
    IF Dig(commit_data, <<"author", "login">>) # None
    THEN Dig(commit_data, <<"author", "login">>)
    ELSE Dig(commit_data, <<"commit", "author", "name">>)

\* C8: verify_commit_data returns true exactly when the SHA is 40 hexadecimal
\* characters, the commit lookup returns data, the actual author equals
\* commit_author and commit_date matches the date pattern.
C8_FourChecks ==
    ret.commit # "notrun" =>
       ( ret.commit = "true" <=>
           /\ ExactlyFortyHex
           /\ commit_lookup.success /\ Truthy(commit_lookup.data)
           /\ StatedAuthor(commit_lookup.data) = Get(results, "commit_author")
           /\ GetD(results, "commit_date", S("")).t = "str"
           /\ DateMatch(GetD(results, "commit_date", S("")).s) )

====
